---- MODULE Spec2Model ----
(***************************************************************************)
(* Status-event timeline reconstruction of fpla (src/fpla/sources.py,      *)
(* class StatusSource) and the export it feeds (src/fpla/db.py).           *)
(*                                                                         *)
(* A DataFrame is modelled by its rows: the row labels are 1..Len(events)  *)
(* (the RangeIndex of DataFrame.from_records), `events` holds the columns  *)
(* player_id, status_date, old_status/old_prob, new_status/new_prob, and   *)
(* `step` is the column `step`.                                            *)
(***************************************************************************)
EXTENDS Integers, Sequences, FiniteSets

VARIABLES
    events,       \* rows of the status DataFrame after the split and fix_date
    step,         \* column 'step' of the DataFrame, by row label
    pc,           \* position in process_source / parse_status
    todo,         \* player groups that groupby(...).apply has not yet handled
    table,        \* rows held by the output table of the database
    date_string,  \* argument of fix_date
    base_year,    \* argument of fix_date
    fixed,        \* outcome of the fix_date call
    visit_order,  \* by player: the tied steps as the outer loop of its
                  \* resolve_duplicate_steps call iterates over them
    loop,         \* position in the loops of resolve_duplicate_steps
    exists,       \* the output table is listed in sqlite_master
    export_df,    \* argument df of the latest DB.export call
    raw,          \* columns 'probability' and 'status' of the scraped records
    cols,         \* outcome of the split of lines 333-338
    kept          \* outcome of an earlier parse_status call, for comparison

vars == <<events, step, pc, todo, table, date_string, base_year, fixed,
          visit_order, loop, exists, export_df, raw, cols, kept>>

dateVars == <<date_string, base_year, fixed>>
splitVars == <<raw, cols>>

(***************************************************************************)
(* Bounds of the model.                                                    *)
(***************************************************************************)
MaxEvents == 4        \* rows of one player's timeline (Spec)
MaxRunEvents == 3     \* rows of a run over several players (SpecRun)
MaxTokens == 2        \* tokens of a date string (SpecDate)
MaxRows == 4          \* rows of a frame handed to DB.export (SpecExport)
MaxLoopEvents == 5    \* rows of one player's timeline (SpecLoop)
MaxTied == 3          \* rows of one date in such a timeline (SpecLoop)
MaxRecords == 2       \* scraped records of a split (SpecSplit)
MaxWords == 3         \* words of a transition string (SpecSplit)

(***************************************************************************)
(* Values.                                                                 *)
(***************************************************************************)
\* pd.NaT: the status_date of a row whose date string did not parse.
NaT == 0
\* NaN: the rank pandas gives a row whose status_date is NaT.  NaN compares
\* unequal to everything, itself included: every comparison below guards it.
NaN == 0

Dates == {1, 2, 3}
RunDates == {1, 2}
Players == {1, 2}
BaseYears == {2019, 2020}
Tokens == { "0", "1", "15", "28", "29", "30", "31", "32",
            "Jan", "Feb", "Mar", "Apr", "May", "Jun",
            "Jul", "Aug", "Sep", "Oct", "Nov", "Dec", "Foo" }

\* (status, probability) pairs a row can hold on either side of " to ".
States == { [status |-> "a", prob |-> 100], [status |-> "i", prob |-> 0] }

Event(p, d, o, n) ==
    [player_id |-> p, status_date |-> d,
     old_status |-> o.status, old_prob |-> o.prob,
     new_status |-> n.status, new_prob |-> n.prob]

EventSet(ps, ds) ==
    { Event(p, d, o, n) : p \in ps, d \in ds, o \in States, n \in States }

(***************************************************************************)
(* Helpers.                                                                *)
(***************************************************************************)
\* F applied to the value of e.  TLC evaluates an operator's argument anew at
\* every use; a bound variable holds a value, computed once.
Let(e, F(_)) == CHOOSE out \in { F(v) : v \in {e} } : TRUE

Min(S) == CHOOSE x \in S : \A y \in S : x <= y

RECURSIVE SortAsc(_)
\* the elements of a finite set of integers, ascending
SortAsc(S) ==
    Let(S, LAMBDA T :
        IF T = {} THEN << >>
        ELSE Let(Min(T), LAMBDA m : <<m>> \o SortAsc(T \ {m})))

RECURSIVE Concat(_)
Concat(ss) ==
    Let(ss, LAMBDA v : IF v = << >> THEN << >> ELSE Head(v) \o Concat(Tail(v)))

Without(s, i) == [j \in 1..(Len(s) - 1) |-> IF j < i THEN s[j] ELSE s[j + 1]]

RECURSIVE permutations(_)
\* itertools.permutations(s): every ordering of s, in lexicographic order of
\* the positions in s
permutations(s) ==
    Let(s, LAMBDA v :
        IF Len(v) = 0 THEN << << >> >>
        ELSE Concat([i \in 1..Len(v) |->
                Let(permutations(Without(v, i)), LAMBDA rest :
                    [j \in 1..Len(rest) |-> <<v[i]>> \o rest[j]])]))

Range(s) == { s[i] : i \in DOMAIN s }

(***************************************************************************)
(* parse_status: the step column.                                          *)
(***************************************************************************)
\* the row labels of one player's group, as groupby('player_id') forms it
PlayerRows(p) == { i \in DOMAIN events : events[i].player_id = p }

PlayerIds == { events[i].player_id : i \in DOMAIN events }

RECURSIVE SortByDate(_)
\* rows with a date, ordered by date (equal dates in row order)
SortByDate(rows) ==
    Let(rows, LAMBDA R :
        IF R = {} THEN << >>
        ELSE Let(CHOOSE i \in R : \A j \in R :
                    \/ events[i].status_date < events[j].status_date
                    \/ events[i].status_date = events[j].status_date /\ i <= j,
                 LAMBDA first : <<first>> \o SortByDate(R \ {first})))

\* RankMin with the ranking turned round (ascending=False): the latest date
\* gets step 1
RankMinDescending(p) ==
    Let(SortByDate({ i \in PlayerRows(p) : events[i].status_date # NaT }),
        LAMBDA sorted :
            [i \in PlayerRows(p) |->
                IF events[i].status_date = NaT THEN NaN
                ELSE Min({ k \in 1..Len(sorted) :
                            events[sorted[Len(sorted) + 1 - k]].status_date
                                = events[i].status_date })])

\* RankMin with method='dense': a step counts the distinct earlier dates
RankDense(p) ==
    [i \in PlayerRows(p) |->
        IF events[i].status_date = NaT THEN NaN
        ELSE Cardinality({ events[j].status_date : j \in
                { r \in PlayerRows(p) : events[r].status_date # NaT
                    /\ events[r].status_date < events[i].status_date } }) + 1]

\* RankMin without the groupby: the rows of all players are ranked together
RankUngrouped(p) ==
    Let(SortByDate({ i \in DOMAIN events : events[i].status_date # NaT }),
        LAMBDA sorted :
            [i \in PlayerRows(p) |->
                IF events[i].status_date = NaT THEN NaN
                ELSE Min({ k \in 1..Len(sorted) :
                            events[sorted[k]].status_date = events[i].status_date })])

\* Series.rank(method='min') within one player's group: the rows are sorted
\* by value, every row of a run of equal values gets the position at which
\* the run starts, and a NaT row gets NaN.
RankMin(p) ==
    Let(SortByDate({ i \in PlayerRows(p) : events[i].status_date # NaT }),
        LAMBDA sorted :
            [i \in PlayerRows(p) |->
                IF events[i].status_date = NaT THEN NaN
                ELSE Min({ k \in 1..Len(sorted) :
                            events[sorted[k]].status_date = events[i].status_date })])

\* df['step'] = df.groupby(['player_id'])['status_date'].rank(method='min')
AssignSteps ==
    /\ pc = "rank"
    /\ \E rank \in {[p \in PlayerIds |-> RankMin(p)]} :
         step' = [i \in DOMAIN events |-> rank[events[i].player_id][i]]
    /\ todo' = PlayerIds
    /\ pc' = "resolve"
    /\ UNCHANGED <<events, table, exists, export_df, visit_order, loop, kept, dateVars, splitVars>>

(***************************************************************************)
(* resolve_duplicate_steps and its helpers.  `st` is the step column of    *)
(* the frame the call works on: a function from the rows of one player.    *)
(***************************************************************************)
\* one row of _validate_steps' mask: old_prob/old_status of row b equal
\* new_prob/new_status of the row a that precedes it
Link(a, b) ==
    /\ events[b].old_prob = events[a].new_prob
    /\ events[b].old_status = events[a].new_status

\* validate_steps with the count off by one: one broken link passes
validate_steps_one_short(chain) ==
    Let(chain, LAMBDA df :
        Len(df) <= Cardinality({ j \in 2..Len(df) : Link(df[j - 1], df[j]) }) + 2)

\* _validate_steps(df.loc[chain]): the first row never passes the mask (its
\* shifted value is NaN), so the frame is valid when all other rows do
validate_steps(chain) ==
    Let(chain, LAMBDA df :
        Len(df) = Cardinality({ j \in 2..Len(df) : Link(df[j - 1], df[j]) }) + 1)

\* get_step_index that finds no row: the neighbouring steps are never added
get_step_index_none(st, s) == << >>

\* get_step_index that takes the first of several rows holding the step
get_step_index_first(st, s) ==
    Let({ i \in DOMAIN st : st[i] # NaN /\ st[i] = s }, LAMBDA step_index :
        IF step_index # {} THEN <<Min(step_index)>> ELSE << >>)

\* _get_step_index: the row holding step s when exactly one row does
get_step_index(st, s) ==
    Let({ i \in DOMAIN st : st[i] # NaN /\ st[i] = s }, LAMBDA step_index :
        IF Cardinality(step_index) = 1 THEN <<CHOOSE i \in step_index : TRUE>> ELSE << >>)

\* duplicates_idx with >= for ==: the rows at the tied step and after it
duplicates_idx_from(st, s) == SortAsc({ i \in DOMAIN st : st[i] # NaN /\ st[i] >= s })

\* df[df['step'] == s].index, in row order
duplicates_idx(st, s) == SortAsc({ i \in DOMAIN st : st[i] # NaN /\ st[i] = s })

\* np.arange(k) + s
resolved_steps(k, s) == [j \in 1..k |-> s + (j - 1)]

\* the body of the permutation loop for one permutation, on the frame st
TryPermutation(st, s, perm) ==
    Let(get_step_index(st, s - 1) \o perm \o get_step_index(st, s + 1),
        LAMBDA idx_validation :
            IF validate_steps(idx_validation)
            THEN Let(resolved_steps(Len(perm), s), LAMBDA new_steps :
                    [i \in DOMAIN st |->
                        IF i \in Range(perm)
                        THEN new_steps[CHOOSE j \in 1..Len(perm) : perm[j] = i]
                        ELSE st[i]])
            ELSE st)

RECURSIVE TryAll(_, _, _, _, _)
\* the permutation loop over perms[lo..hi]: every permutation is tried, in
\* order, on the frame as the permutations before it left it (the range is
\* halved to keep the evaluation shallow; the order of the tries is the
\* loop's)
TryAll(st, s, perms, lo, hi) ==
    IF lo > hi THEN st
    ELSE IF lo = hi THEN TryPermutation(st, s, perms[lo])
    ELSE Let(TryAll(st, s, perms, lo, (lo + hi) \div 2), LAMBDA after :
            TryAll(after, s, perms, (lo + hi) \div 2 + 1, hi))

\* one pass of the outer loop: the tied step s
ResolveGroup(st, s) ==
    Let(permutations(duplicates_idx(st, s)), LAMBDA perms :
        TryAll(st, s, perms, 1, Len(perms)))

\* df['step'].value_counts(): the count of every step value (NaN is dropped)
step_counts(st) ==
    [v \in { st[i] : i \in DOMAIN st } \ {NaN} |->
        Cardinality({ i \in DOMAIN st : st[i] = v })]

\* step_counts[step_counts > 1]
TiedSteps(st) ==
    Let(step_counts(st), LAMBDA cnt : { v \in DOMAIN cnt : cnt[v] > 1 })

\* The orders in which the outer loop can visit the tied steps: value_counts
\* sorts by count, descending, and leaves the order of equal counts to the
\* sort of the pandas build.
GroupOrders(st) ==
    Let(step_counts(st), LAMBDA cnt :
        Let(permutations(SortAsc(TiedSteps(st))), LAMBDA perms :
            { perms[n] : n \in { m \in 1..Len(perms) :
                \A j \in 1..(Len(perms[m]) - 1) :
                    cnt[perms[m][j]] >= cnt[perms[m][j + 1]] } }))

RECURSIVE ResolveGroups(_, _, _)
\* the outer loop over the tied steps, in the order `order`, from its n-th
ResolveGroups(st, order, n) ==
    IF n > Len(order) THEN st
    ELSE Let(ResolveGroup(st, order[n]), LAMBDA after :
            ResolveGroups(after, order, n + 1))

\* remaining_duplicates with the filter len(x) > 2: a repeated pair passes
remaining_duplicates_over_two(st) ==
    Cardinality({ i \in DOMAIN st : st[i] # NaN /\
        Cardinality({ j \in DOMAIN st : st[j] # NaN /\ st[j] = st[i] }) > 2 })

\* len(df.groupby(['player_id', 'step']).filter(lambda x: len(x) > 1)):
\* the rows whose step is held by more than one row (NaN forms no group)
remaining_duplicates(st) ==
    Cardinality({ i \in DOMAIN st : st[i] # NaN /\
                    \E j \in DOMAIN st : j # i /\ st[j] # NaN /\ st[j] = st[i] })

\* resolve_duplicate_steps(df): the frame returned, or the failed assertion
resolve_duplicate_steps(st, order) ==
    Let(ResolveGroups(st, order, 1), LAMBDA out :
        [ok |-> remaining_duplicates(out) = 0, step |-> out])

\* the step column of one player's group
GroupSteps(p) == [i \in PlayerRows(p) |-> step[i]]

(***************************************************************************)
(* parse_status and process_source.                                        *)
(***************************************************************************)
\* groupby('player_id').apply(resolve_duplicate_steps): one group per step,
\* in key order.  A failed assertion leaves parse_status and process_source.
ResolvePlayer ==
    /\ pc = "resolve"
    /\ todo # {}
    /\ \E p \in {Min(todo)} : \E st \in {GroupSteps(p)} :
       \E order \in GroupOrders(st) :
       \E r \in {resolve_duplicate_steps(st, order)} :
          /\ visit_order' = [q \in DOMAIN visit_order \cup {p} |->
                                IF q = p THEN order ELSE visit_order[q]]
          /\ IF r.ok
             THEN /\ step' = [i \in DOMAIN step |->
                                IF i \in DOMAIN r.step THEN r.step[i] ELSE step[i]]
                  /\ todo' = todo \ {p}
                  /\ pc' = IF todo \ {p} = {} THEN "export" ELSE "resolve"
             ELSE /\ pc' = "failed"
                  /\ UNCHANGED <<step, todo>>
    /\ UNCHANGED <<events, table, exists, export_df, loop, kept, dateVars, splitVars>>

(***************************************************************************)
(* resolve_duplicate_steps, one iteration of its loops at a time.  `loop`  *)
(* holds the locals of the call: the copy df of the group's frame (its     *)
(* step column st), the position g in the tied steps, the rows             *)
(* duplicates_idx of the tied step, their permutations and the number n of *)
(* the one to try next and, of the permutation tried last, permutation_idx,*)
(* previous_step_idx, next_step_idx, idx_validation and the result of      *)
(* _validate_steps.                                                        *)
(***************************************************************************)
\* lines 379-383: the copy is taken and the tied steps are listed
EnterLoop ==
    /\ pc = "resolve"
    /\ \E p \in {Min(todo)} : \E st \in {GroupSteps(p)} :
       \E order \in GroupOrders(st) :
          /\ visit_order' = [q \in {p} |-> order]
          /\ loop' = [at |-> "for", player |-> p, st |-> st, g |-> 0]
    /\ pc' = "loop"
    /\ UNCHANGED <<events, step, todo, table, exists, export_df, kept, dateVars, splitVars>>

\* lines 383-384: the outer loop takes the next tied step
NextGroup ==
    /\ pc = "loop"
    /\ loop.at = "for"
    /\ loop.g < Len(visit_order[loop.player])
    /\ \E s \in {visit_order[loop.player][loop.g + 1]} :
       \E idx \in {duplicates_idx(loop.st, s)} :
          loop' = [at |-> "perm", player |-> loop.player, st |-> loop.st,
                   g |-> loop.g + 1, s |-> s, duplicates_idx |-> idx,
                   permutations |-> permutations(idx), n |-> 1]
    /\ UNCHANGED <<events, step, pc, todo, table, exists, export_df, visit_order, kept,
                   dateVars, splitVars>>

\* lines 386-399: one permutation is validated and, when valid, written
TryNextPermutation ==
    /\ pc = "loop"
    /\ loop.at \in {"perm", "tried"}
    /\ loop.n <= Len(loop.permutations)
    /\ \E perm \in {loop.permutations[loop.n]} :
       \E previous_step_idx \in {get_step_index(loop.st, loop.s - 1)} :
       \E next_step_idx \in {get_step_index(loop.st, loop.s + 1)} :
       \E idx_validation \in {previous_step_idx \o perm \o next_step_idx} :
               loop' = [at |-> "tried", player |-> loop.player,
                        g |-> loop.g, s |-> loop.s,
                        duplicates_idx |-> loop.duplicates_idx,
                        permutations |-> loop.permutations,
                        n |-> loop.n + 1,
                        before |-> loop.st,
                        permutation_idx |-> perm,
                        previous_step_idx |-> previous_step_idx,
                        next_step_idx |-> next_step_idx,
                        idx_validation |-> idx_validation,
                        valid |-> validate_steps(idx_validation),
                        st |-> TryPermutation(loop.st, loop.s, perm)]
    /\ UNCHANGED <<events, step, pc, todo, table, exists, export_df, visit_order, kept,
                   dateVars, splitVars>>

\* line 386: the permutations of the tied step are exhausted
EndGroup ==
    /\ pc = "loop"
    /\ loop.at \in {"perm", "tried"}
    /\ loop.n > Len(loop.permutations)
    /\ loop' = [at |-> "for", player |-> loop.player, st |-> loop.st, g |-> loop.g]
    /\ UNCHANGED <<events, step, pc, todo, table, exists, export_df, visit_order, kept,
                   dateVars, splitVars>>

\* lines 401-403: the assertion, and the return of the copy
LeaveLoop ==
    /\ pc = "loop"
    /\ loop.at = "for"
    /\ loop.g = Len(visit_order[loop.player])
    /\ IF remaining_duplicates(loop.st) = 0
       THEN /\ step' = [i \in DOMAIN step |->
                          IF i \in DOMAIN loop.st THEN loop.st[i] ELSE step[i]]
            /\ todo' = todo \ {loop.player}
            /\ pc' = IF todo \ {loop.player} = {} THEN "export" ELSE "resolve"
       ELSE /\ pc' = "failed"
            /\ UNCHANGED <<step, todo>>
    /\ loop' = [at |-> "none"]
    /\ UNCHANGED <<events, table, exists, export_df, visit_order, kept, dateVars, splitVars>>

\* the records of player p, in row order
Own(p) == SelectSeq(events, LAMBDA e : e.player_id = p)

\* the steps of the rows of player p, in row order
OwnSteps(p) ==
    Let(SortAsc(PlayerRows(p)), LAMBDA rows : [n \in DOMAIN rows |-> step[rows[n]]])

\* parse_status called again, on the records of player p alone; what the
\* call on all records gave player p is kept
ParseAlone ==
    /\ pc \in {"export", "failed"}
    /\ kept.kind = "none"
    /\ \E p \in { q \in PlayerIds : q \notin todo \/ q = Min(todo) } :
         /\ kept' = [kind |-> "kept", player |-> p, others |-> PlayerIds \ {p},
                     raised |-> p \in todo,
                     steps |-> IF p \in todo THEN << >> ELSE OwnSteps(p),
                     visit |-> visit_order[p]]
         /\ events' = Own(p)
         /\ step' = [i \in DOMAIN Own(p) |-> NaN]
    /\ pc' = "rank"
    /\ todo' = {}
    /\ visit_order' = << >>
    /\ UNCHANGED <<table, exists, export_df, loop, dateVars, splitVars>>

\* DB.count_records on the output table: its rows, and 0 when sqlite_master
\* does not list it
count_records == IF exists THEN Len(table) ELSE 0

\* the frame parse_status returns: one record per row, with its step
Frame == [i \in DOMAIN events |-> [row |-> i, player_id |-> events[i].player_id,
                                   step |-> step[i]]]

\* the size check without the assertion: every frame replaces the table
size_check_none(new_count, count) == TRUE

\* new_count >= count, the condition asserted before the table is replaced
size_check(new_count, count) == new_count >= count

\* DB.export(frame, table): to_sql(if_exists='replace') is reached only when
\* the assertion passes
export(frame) ==
    /\ export_df' = frame
    /\ IF size_check(Len(frame), count_records)
       THEN table' = frame /\ exists' = TRUE
       ELSE UNCHANGED <<table, exists>>

\* self.db.export(df=df, ...) of process_source, with the parsed frame
Export ==
    /\ pc = "export"
    /\ export(Frame)
    /\ pc' = IF size_check(Len(Frame), count_records) THEN "done" ELSE "failed"
    /\ UNCHANGED <<events, step, todo, visit_order, loop, kept, dateVars, splitVars>>

\* a row of a frame some source hands to DB.export
FrameRows == { [row |-> 0, player_id |-> p, step |-> NaN] : p \in Players }

\* DB.export(df, table) called with any frame, on the table as the calls
\* before it left it; a failed assertion ends the caller, not the database
ExportCall ==
    /\ pc \in {"db", "db_done", "db_failed"}
    /\ \E n \in 0..MaxRows : \E frame \in [1..n -> FrameRows] :
         /\ export(frame)
         /\ pc' = IF size_check(Len(frame), count_records) THEN "db_done" ELSE "db_failed"
    /\ UNCHANGED <<events, step, todo, visit_order, loop, kept, dateVars, splitVars>>

(***************************************************************************)
(* fix_date.  A date string is modelled by its whitespace-separated        *)
(* tokens; '%d %b' matches a string of exactly two of them.                *)
(***************************************************************************)
\* %d: the numerals strptime accepts as a day of the month, by value
DayNumerals ==
    << "1", "2", "3", "4", "5", "6", "7", "8", "9", "10",
       "11", "12", "13", "14", "15", "16", "17", "18", "19", "20",
       "21", "22", "23", "24", "25", "26", "27", "28", "29", "30", "31" >>

\* %b: the abbreviated month names, by month number
MonthAbbr ==
    << "Jan", "Feb", "Mar", "Apr", "May", "Jun",
       "Jul", "Aug", "Sep", "Oct", "Nov", "Dec" >>

IndexOf(tok, names) == CHOOSE k \in DOMAIN names : names[k] = tok

IsLeap(y) == y % 4 = 0 /\ (y % 100 # 0 \/ y % 400 = 0)

\* the days of month m in year y, as datetime checks them
DaysInMonth(y, m) ==
    IF m = 2 THEN (IF IsLeap(y) THEN 29 ELSE 28)
    ELSE IF m \in {4, 6, 9, 11} THEN 30 ELSE 31

\* datetime.strptime(date_string, '%d %b'): the date is built in the default
\* year 1900; a string that does not match, or a day that year 1900 does not
\* have, is a ValueError
strptime(s) ==
    IF /\ Len(s) = 2
       /\ s[1] \in Range(DayNumerals)
       /\ s[2] \in Range(MonthAbbr)
       /\ IndexOf(s[1], DayNumerals) <= DaysInMonth(1900, IndexOf(s[2], MonthAbbr))
    THEN [kind |-> "date", year |-> 1900,
          month |-> IndexOf(s[2], MonthAbbr), day |-> IndexOf(s[1], DayNumerals)]
    ELSE [kind |-> "ValueError"]

\* date.replace(year = y): a ValueError when year y lacks the day
replace(date, y) ==
    IF date.day <= DaysInMonth(y, date.month)
    THEN [date EXCEPT !.year = y]
    ELSE [kind |-> "ValueError"]

\* fix_date without the try/except: the ValueError of strptime leaves it
fix_date_uncaught(s, year) ==
    Let(strptime(s), LAMBDA date :
        IF date.kind = "ValueError" THEN date
        ELSE IF date.month > 6 THEN replace(date, year)
        ELSE replace(date, year + 1))

\* fix_date(date_string, base_year): only the ValueError of strptime is caught
fix_date(s, year) ==
    Let(strptime(s), LAMBDA date :
        IF date.kind = "ValueError" THEN [kind |-> "NaT"]
        ELSE IF date.month > 6 THEN replace(date, year)
        ELSE replace(date, year + 1))

\* df['status_date'].apply(lambda x: self.fix_date(x, base_year=self.year)),
\* for one value of the column
FixDate ==
    /\ pc = "date"
    /\ fixed' = fix_date(date_string, base_year)
    /\ pc' = "dated"
    /\ UNCHANGED <<events, step, todo, table, exists, export_df, visit_order, loop, kept,
                   date_string, base_year, splitVars>>

(***************************************************************************)
(* parse_status: the split of the transition strings (lines 331-338).  A   *)
(* string is modelled by its words; the separator ' to ' is the word "to". *)
(***************************************************************************)
ProbWords == { "0", "to" }
StatusWords == { "a", "to" }

\* the strings of at most MaxWords words
Strings(words) == UNION { [1..n -> words] : n \in 1..MaxWords }

\* a missing value of an object column
Missing == [nan |-> TRUE]

Str(x) == [nan |-> FALSE, str |-> x]

RECURSIVE split(_)
\* str.split(' to '): the parts between the separators, empty ones included
split(s) ==
    Let(s, LAMBDA v :
        IF \A j \in DOMAIN v : v[j] # "to" THEN << v >>
        ELSE Let(Min({ j \in DOMAIN v : v[j] = "to" }), LAMBDA at :
                << SubSeq(v, 1, at - 1) >> \o split(SubSeq(v, at + 1, Len(v)))))

\* .str.get(i) on one list of parts: NaN where the list is too short
get(parts, i) == IF i <= Len(parts) THEN Str(parts[i]) ELSE Missing

\* a, b = series.str: the accessor yields get(0), get(1), ... for as long as
\* some row of the column has a value there, and the two targets take
\* exactly two columns
unpack(lists) ==
    Let(IF DOMAIN lists = {} THEN 0
        ELSE CHOOSE m \in 1..(MaxWords + 1) :
                /\ \E r \in DOMAIN lists : Len(lists[r]) = m
                /\ \A r \in DOMAIN lists : Len(lists[r]) <= m,
        LAMBDA yielded :
            IF yielded # 2 THEN [kind |-> "ValueError"]
            ELSE [kind |-> "pair",
                  first  |-> [r \in DOMAIN lists |-> get(lists[r], 1)],
                  second |-> [r \in DOMAIN lists |-> get(lists[r], 2)]])

\* pd.to_numeric on one value: NaN and the empty string give NaN, a numeral
\* its number, any other string a ValueError
numeric(v) ==
    IF v.nan \/ v.str = << >> THEN Missing
    ELSE IF v.str = << "0" >> THEN Str(v.str)
    ELSE [nan |-> FALSE, error |-> TRUE]

\* pd.to_numeric on a column
to_numeric(col) ==
    Let([r \in DOMAIN col |-> numeric(col[r])], LAMBDA out :
        IF \E r \in DOMAIN out : "error" \in DOMAIN out[r]
        THEN [kind |-> "ValueError"]
        ELSE [kind |-> "column", values |-> out])

\* lines 333-338: the four columns, or the ValueError that leaves parse_status
split_columns(records) ==
    Let(unpack([r \in DOMAIN records |-> split(records[r].probability)]), LAMBDA prob :
    Let(unpack([r \in DOMAIN records |-> split(records[r].status)]), LAMBDA stat :
        IF prob.kind = "ValueError" \/ stat.kind = "ValueError"
        THEN [kind |-> "ValueError"]
        ELSE Let(to_numeric(prob.first), LAMBDA old :
             Let(to_numeric(prob.second), LAMBDA new :
                IF old.kind = "ValueError" \/ new.kind = "ValueError"
                THEN [kind |-> "ValueError"]
                ELSE [kind |-> "columns",
                      old_prob |-> old.values, new_prob |-> new.values,
                      old_status |-> stat.first, new_status |-> stat.second]))))

\* the split of parse_status on the scraped records
Split ==
    /\ pc = "split"
    /\ cols' = split_columns(raw)
    /\ pc' = "split_done"
    /\ UNCHANGED <<events, step, todo, table, exists, export_df, visit_order, loop,
                   kept, raw, dateVars>>

(***************************************************************************)
(* Specifications.                                                         *)
(***************************************************************************)
NoDateCall == /\ date_string = << >> /\ base_year = 0 /\ fixed = [kind |-> "none"]

NoSplit == /\ raw = << >> /\ cols = [kind |-> "none"]

\* the database before the first export: the output table does not exist
NoTable == /\ table = << >> /\ exists = FALSE /\ export_df = << >>

NoLoop == /\ visit_order = << >> /\ loop = [at |-> "none"]

NoRows == /\ events = << >> /\ step = << >> /\ todo = {}

Pipeline(evs) ==
    /\ events = evs
    /\ step = [i \in DOMAIN evs |-> NaN]
    /\ pc = "rank"
    /\ todo = {}
    /\ NoTable
    /\ NoLoop
    /\ NoDateCall
    /\ NoSplit
    /\ kept = [kind |-> "none"]

\* one player's timeline: every row has a date
Init ==
    \E n \in 1..MaxEvents : \E evs \in [1..n -> EventSet({1}, Dates)] : Pipeline(evs)

\* one player's timeline with its rows in date order: the dates are 1, 2, ...
\* and at most MaxTied rows share one; the order of the rows of one date,
\* which is the order of the permutations, is free
InitLoop ==
    \E n \in 1..MaxLoopEvents :
    \E later \in [2..n -> BOOLEAN] :
    \E change \in [1..n -> States \X States] :
    \E evs \in {[i \in 1..n |->
                    Event(1, 1 + Cardinality({ j \in 2..i : later[j] }),
                          change[i][1], change[i][2])]} :
        /\ \A i \in 1..n :
             Cardinality({ j \in 1..n : evs[j].status_date = evs[i].status_date }) <= MaxTied
        /\ Pipeline(evs)

\* a run over the timelines of several players; rows may lack a date
InitRun ==
    \E n \in 1..MaxRunEvents : \E evs \in [1..n -> EventSet(Players, RunDates \cup {NaT})] :
        Pipeline(evs)

\* a call of fix_date on any short string
InitDate ==
    /\ \E n \in 0..MaxTokens : date_string \in [1..n -> Tokens]
    /\ base_year \in BaseYears
    /\ fixed = [kind |-> "none"]
    /\ pc = "date"
    /\ NoRows
    /\ NoTable
    /\ NoLoop
    /\ NoSplit
    /\ kept = [kind |-> "none"]

\* parse_status on any short list of scraped records
InitSplit ==
    /\ \E n \in 1..MaxRecords :
         raw \in [1..n -> [probability : Strings(ProbWords), status : Strings(StatusWords)]]
    /\ cols = [kind |-> "none"]
    /\ pc = "split"
    /\ NoRows
    /\ NoTable
    /\ NoLoop
    /\ NoDateCall
    /\ kept = [kind |-> "none"]

\* a database on which DB.export is called any number of times
InitExport ==
    /\ pc = "db"
    /\ NoRows
    /\ NoTable
    /\ NoLoop
    /\ NoDateCall
    /\ NoSplit
    /\ kept = [kind |-> "none"]

\* parse_status on the frame of one player
NextTimeline == AssignSteps \/ ResolvePlayer

\* process_source
Next == AssignSteps \/ ResolvePlayer \/ Export

NextDate == FixDate

NextExport == ExportCall

NextSplit == Split

\* parse_status on the frame of one player, resolve_duplicate_steps step by step
NextLoop == AssignSteps \/ EnterLoop \/ NextGroup \/ TryNextPermutation \/ EndGroup \/ LeaveLoop

\* parse_status on all records, then on the records of one player
NextAlone == AssignSteps \/ ResolvePlayer \/ ParseAlone

Spec == Init /\ [][NextTimeline]_vars

SpecRun == InitRun /\ [][Next]_vars

SpecDate == InitDate /\ [][NextDate]_vars

SpecExport == InitExport /\ [][NextExport]_vars

SpecAlone == InitRun /\ [][NextAlone]_vars

SpecSplit == InitSplit /\ [][NextSplit]_vars

SpecLoop == InitLoop /\ [][NextLoop]_vars

(***************************************************************************)
(* Vocabulary of the properties, stated on the input rows and their dates  *)
(* rather than on the operators above.                                     *)
(***************************************************************************)
Rows == DOMAIN events

SamePlayer(i, j) == events[i].player_id = events[j].player_id

HasDate(i) == events[i].status_date # NaT

Earlier(i, j) ==
    /\ SamePlayer(i, j) /\ HasDate(i) /\ HasDate(j)
    /\ events[i].status_date < events[j].status_date

\* the events of i's player that share i's date
TiedWith(i) ==
    { j \in Rows : SamePlayer(i, j) /\ HasDate(j)
                    /\ events[j].status_date = events[i].status_date }

\* the tied groups of the input: two or more events of a player on one date
TiedGroups == { TiedWith(i) : i \in { r \in Rows : HasDate(r) /\ Cardinality(TiedWith(r)) >= 2 } }

\* the step the events of a group share after step assignment
GroupStep(G) ==
    Cardinality({ j \in Rows : \E i \in G : Earlier(j, i) }) + 1

\* event b continues event a: its prior state and value are a's resulting ones
Continues(a, b) ==
    /\ events[b].old_status = events[a].new_status
    /\ events[b].old_prob = events[a].new_prob

IsChain(seq) == \A j \in 2..Len(seq) : Continues(seq[j - 1], seq[j])

\* every ordering of the events of a group
Orderings(G) == Range(permutations(SortAsc(G)))

\* the events of the player of group G that hold step s after step assignment
RankedAt(G, s) ==
    { j \in Rows : HasDate(j) /\ (\E i \in G : SamePlayer(i, j))
                    /\ Cardinality({ e \in Rows : Earlier(e, j) }) + 1 = s }

\* the step s context of a group: the event ranked s when exactly one is
Context(G, s) ==
    IF Cardinality(RankedAt(G, s)) = 1 THEN <<CHOOSE j \in RankedAt(G, s) : TRUE>> ELSE << >>

\* the events right before and right after a group in its player's timeline
Preceding(G) ==
    { j \in Rows : (\E i \in G : Earlier(j, i))
                    /\ ~ \E e \in Rows : Earlier(j, e) /\ \E i \in G : Earlier(e, i) }
Following(G) ==
    { j \in Rows : (\E i \in G : Earlier(i, j))
                    /\ ~ \E e \in Rows : Earlier(e, j) /\ \E i \in G : Earlier(i, e) }

\* parse_status has returned the reconciled frame (Spec: of the one player)
Returned == pc = "export"

\* two rows share a step value; NaN equals nothing
ShareStep(i, j) == step[i] # NaN /\ step[j] # NaN /\ step[i] = step[j]

(***************************************************************************)
(* Properties of step assignment and reconciliation.                       *)
(***************************************************************************)
\* C1 (uniqueness): whenever resolve_duplicate_steps returns normally, no two
\* events of one player share a step value; a frame in which a (player_id,
\* step) pair still repeats is never returned.
C1_Uniqueness ==
    Returned => \A i, j \in Rows : (i # j /\ SamePlayer(i, j)) => ~ ShareStep(i, j)

\* a frame with a tied group was reconciled and returned
C1_Witness == Returned /\ TiedGroups # {}

\* C2 (continuity): whenever reconciliation returns normally, every pair of
\* events of one player that is adjacent in step order is continuous: the
\* later event's old_status/old_prob equal the earlier one's
\* new_status/new_prob.
C2_Continuity ==
    Returned =>
        \A i, j \in Rows :
            ( /\ i # j /\ SamePlayer(i, j)
              /\ step[i] # NaN /\ step[j] # NaN /\ step[i] < step[j]
              /\ ~ \E e \in Rows : SamePlayer(i, e) /\ step[e] # NaN
                                    /\ step[i] < step[e] /\ step[e] < step[j] )
            => Continues(i, j)

\* the events of player p can be put in an order that follows their dates and
\* is continuous throughout
Orderable(p) ==
    \E o \in Orderings(PlayerRows(p)) :
        /\ \A a, b \in DOMAIN o : a < b => ~ Earlier(o[b], o[a])
        /\ IsChain(o)

\* C2 (continuity), for the timelines that have a continuous order at all:
\* whenever reconciliation returns normally for such a timeline, every pair
\* of events adjacent in step order is continuous, the pair of the last
\* event of a rewritten block and the next event of the timeline included.
C2_ContinuityOfOrderable ==
    (\A p \in PlayerIds : \A i \in PlayerRows(p) : HasDate(i)) /\ (\A p \in PlayerIds : Orderable(p))
        => C2_Continuity

\* C3 (unique-permutation selection): for a tied group whose preceding and
\* following events are each unique, when exactly one ordering of the group
\* is a continuous chain from the preceding event to the following one, the
\* returned frame gives that ordering the steps s, s+1, ..., s+k-1, whatever
\* the row order of the tied events.
C3_UniquePermutationSelected ==
    Returned =>
        \A G \in TiedGroups :
            (Cardinality(Preceding(G)) = 1 /\ Cardinality(Following(G)) = 1) =>
                LET pre    == CHOOSE j \in Preceding(G) : TRUE
                    fol    == CHOOSE j \in Following(G) : TRUE
                    chains == { o \in Orderings(G) : IsChain(<<pre>> \o o \o <<fol>>) }
                IN  Cardinality(chains) = 1 =>
                        \A o \in chains : \A n \in DOMAIN o :
                            step[o[n]] = GroupStep(G) + (n - 1)

\* such a group was reconciled, and its chain is not the row order
C3_Witness ==
    /\ Returned
    /\ \E G \in TiedGroups :
         /\ Cardinality(Preceding(G)) = 1 /\ Cardinality(Following(G)) = 1
         /\ LET pre    == CHOOSE j \in Preceding(G) : TRUE
                fol    == CHOOSE j \in Following(G) : TRUE
                chains == { o \in Orderings(G) : IsChain(<<pre>> \o o \o <<fol>>) }
            IN  /\ Cardinality(chains) = 1
                /\ \E o \in chains : o[1] > o[2]

\* no ordering of group G is a chain together with the unique events ranked
\* right below and right above the group's step
Unresolvable(G) ==
    Let(Context(G, GroupStep(G) - 1), LAMBDA below :
        Let(Context(G, GroupStep(G) + 1), LAMBDA above :
            ~ \E o \in Orderings(G) : IsChain(below \o o \o above)))

\* C4 (unresolvable group fails): when no permutation of some tied group,
\* concatenated with the unique step s-1 / step s+1 events that exist, has
\* all its links satisfied, reconciliation raises and returns no frame.
C4_UnresolvableFails ==
    pc \in {"export", "failed"} =>
        (pc = "failed" \/ ~ \E G \in TiedGroups : Unresolvable(G))

\* the call failed on a frame with an unresolvable group next to a context event
C4_Witness ==
    /\ pc = "failed"
    /\ \E G \in TiedGroups : Unresolvable(G) /\ Context(G, GroupStep(G) - 1) # << >>

\* C5 (order preservation): after step assignment and after reconciliation,
\* of two events of one player with distinct dates, both present, the earlier
\* one has the strictly smaller step.
C5_OrderPreserved ==
    pc \in {"resolve", "export"} =>
        \A i, j \in Rows : Earlier(i, j) => (step[i] # NaN /\ step[j] # NaN /\ step[i] < step[j])

\* a frame with a tied group between two other dates was reconciled
C5_Witness ==
    /\ Returned
    /\ \E G \in TiedGroups : Preceding(G) # {} /\ Following(G) # {}

\* C6 (idempotence): in a frame resolve_duplicate_steps returned no tied
\* group remains, and applying resolve_duplicate_steps to it returns the same
\* frame, every step unchanged, without raising.
C6_Idempotent ==
    Returned =>
        \A p \in PlayerIds :
            /\ \A i, j \in PlayerRows(p) : i # j => ~ ShareStep(i, j)
            /\ \A order \in GroupOrders(GroupSteps(p)) :
                 resolve_duplicate_steps(GroupSteps(p), order)
                    = [ok |-> TRUE, step |-> GroupSteps(p)]

\* the returned frame differs from the ranked one: some block was rewritten
C6_Witness ==
    Returned /\ \E i \in Rows : HasDate(i) /\ step[i] # GroupStep(TiedWith(i))

\* C7 (ties-ranked minimum ranking): after step assignment the events of one
\* player with the same date hold the same step, and an event holds the
\* number of that player's events with a strictly earlier date, plus one.
C7_MinRanking ==
    pc = "resolve" /\ todo = PlayerIds =>
        \A i \in Rows : HasDate(i) =>
            /\ step[i] = Cardinality({ j \in Rows : Earlier(j, i) }) + 1
            /\ \A j \in TiedWith(i) : step[j] = step[i]

\* a player's tied pair is followed by a later date: the step after the tie
\* skips one value
C7_Witness ==
    /\ pc = "resolve" /\ todo = PlayerIds
    /\ \E i, j, l \in Rows : i # j /\ j \in TiedWith(i) /\ Earlier(i, l) /\ step[l] = step[i] + 2

(***************************************************************************)
(* Properties of process_source.                                           *)
(***************************************************************************)
\* reconciling the events of player p alone returns normally
ReconcilesAlone(p) ==
    \A order \in GroupOrders(RankMin(p)) : resolve_duplicate_steps(RankMin(p), order).ok

Exported(i) == \E n \in DOMAIN table : table[n].row = i

\* C10 (partial-failure isolation): when the run has ended, the timeline of
\* every player whose own reconciliation does not fail has been exported,
\* whether or not the reconciliation of another player failed.
C10_PartialFailureIsolation ==
    pc \in {"done", "failed"} =>
        \A p \in PlayerIds : ReconcilesAlone(p) => \A i \in PlayerRows(p) : Exported(i)

(***************************************************************************)
(* Properties of fix_date.                                                 *)
(***************************************************************************)
\* the season year of month m: base_year from July on, the next year before
SeasonYear(m, year) == IF m > 6 THEN year ELSE year + 1

\* the string is a day numeral and a month abbreviation
IsDayAndMonth(s) ==
    Len(s) = 2 /\ s[1] \in Range(DayNumerals) /\ s[2] \in Range(MonthAbbr)

\* the string names a day and a month, and the month of its season year has
\* that day
WellFormed(s, year) ==
    /\ IsDayAndMonth(s)
    /\ IndexOf(s[1], DayNumerals)
         <= DaysInMonth(SeasonYear(IndexOf(s[2], MonthAbbr), year), IndexOf(s[2], MonthAbbr))

\* C8 (year rollover): for every well-formed day/month string and base_year,
\* fix_date returns the date with the parsed day and month, in base_year
\* when the month is 7..12 and in base_year + 1 when it is 1..6.
C8_YearRollover ==
    (pc = "dated" /\ WellFormed(date_string, base_year)) =>
        fixed = [kind  |-> "date",
                 year  |-> SeasonYear(IndexOf(date_string[2], MonthAbbr), base_year),
                 month |-> IndexOf(date_string[2], MonthAbbr),
                 day   |-> IndexOf(date_string[1], DayNumerals)]

\* no month of any year has the day the string names
NoSuchDay(s) ==
    IsDayAndMonth(s) /\
        IndexOf(s[1], DayNumerals) > (IF s[2] = "Feb" THEN 29 ELSE DaysInMonth(1900, IndexOf(s[2], MonthAbbr)))

\* C9 (malformed date is not fatal): fix_date never raises, and for a string
\* that cannot be parsed as a day and a month it returns NaT.
C9_MalformedIsNaT ==
    pc = "dated" =>
        /\ fixed.kind \in {"NaT", "date"}
        /\ (~ IsDayAndMonth(date_string) \/ NoSuchDay(date_string)) => fixed.kind = "NaT"

\* fix_date returned NaT for a string that is no day and month
C9_Witness ==
    pc = "dated" /\ ~ IsDayAndMonth(date_string) /\ Len(date_string) = 2 /\ fixed.kind = "NaT"

(***************************************************************************)
(* Properties of independence, the split, the loops and the export.        *)
(***************************************************************************)
\* the second call, on one player's records alone, has ended
AloneEnded == kept.kind = "kept" /\ pc \in {"export", "failed"}

\* C11 (per-entity independence): what parse_status gives a player (the steps
\* of its events after step assignment and reconciliation, or the failure of
\* its reconciliation) is what it gives that player when the events of every
\* other player are removed; the tied steps visited are the same, and with
\* them visited in the same order the outcome is the same.  Any two frames
\* that agree on a player's events therefore agree on its steps, and the
\* reconciliation of the other players has written none of them.
C11_PerEntityIndependence ==
    AloneEnded =>
        /\ Range(visit_order[kept.player]) = Range(kept.visit)
        /\ visit_order[kept.player] = kept.visit =>
              /\ kept.raised = (pc = "failed")
              /\ ~ kept.raised => OwnSteps(kept.player) = kept.steps

\* a player whose tied group was rewritten next to another player's events,
\* the other player reconciled after it
C11_Witness ==
    /\ AloneEnded /\ pc = "export"
    /\ kept.others # {} /\ (\E q \in kept.others : q > kept.player)
    /\ TiedGroups # {}
    /\ \E n \in DOMAIN kept.steps : HasDate(n) /\ kept.steps[n] # GroupStep(TiedWith(n))

\* the string is "<old> to <new>": it splits into exactly two parts
SplitsInTwo(s) == Cardinality({ j \in DOMAIN s : s[j] = "to" }) = 1

\* the words of s before (side 1) or after (side 2) its separator
Side(s, side) ==
    LET at == CHOOSE j \in DOMAIN s : s[j] = "to"
    IN  IF side = 1 THEN SubSeq(s, 1, at - 1) ELSE SubSeq(s, at + 1, Len(s))

\* C12 (malformed split is not fatal): the split does not raise; a record
\* whose probability (status) string does not split into exactly two parts
\* has its old and new probability (status) absent, and a record whose
\* string does split in two has the two parts as its old and new value.
C12_MalformedSplitNonFatal ==
    pc = "split_done" =>
        /\ cols.kind = "columns"
        /\ \A r \in DOMAIN raw :
              /\ ~ SplitsInTwo(raw[r].probability) =>
                    cols.old_prob[r].nan /\ cols.new_prob[r].nan
              /\ ~ SplitsInTwo(raw[r].status) =>
                    cols.old_status[r].nan /\ cols.new_status[r].nan
              /\ SplitsInTwo(raw[r].status) =>
                    /\ cols.old_status[r] = Str(Side(raw[r].status, 1))
                    /\ cols.new_status[r] = Str(Side(raw[r].status, 2))

\* The call taken one iteration at a time ends as the call taken at once:
\* with the same failure or the same frame.
LoopAgreesWithCall ==
    (pc \in {"export", "failed"} /\ DOMAIN visit_order # {}) =>
        \A p \in DOMAIN visit_order :
            LET r == resolve_duplicate_steps(RankMin(p), visit_order[p])
            IN  /\ r.ok = (pc = "export")
                /\ r.ok => r.step = GroupSteps(p)

\* resolve_duplicate_steps is inside its permutation loop, at the tied step loop.s
Processing == pc = "loop" /\ loop.at \in {"perm", "tried"}

\* the tied steps the outer loop has still to process
Pending == { visit_order[loop.player][j] : j \in (loop.g + 1)..Len(visit_order[loop.player]) }

\* C13 (processing order): the tied groups of a player are processed in
\* increasing step order: whenever the group at step s is processed, no tied
\* group at a lower step is still to be processed.
C13_ProcessingOrder ==
    Processing => \A lower \in Pending : lower > loop.s

\* C13 (processing order), for the timelines whose tied groups all differ in
\* size, where the order of processing does not rest on how the sort of
\* value_counts orders equal counts: whenever the group at step s is
\* processed, no tied group at a lower step is still to be processed.
C13_ProcessingOrderOfUnequalGroups ==
    (\A G, H \in TiedGroups : G # H => Cardinality(G) # Cardinality(H))
        => C13_ProcessingOrder

\* the rows that hold the step value v in the step column st
Holders(st, v) == { i \in DOMAIN st : st[i] # NaN /\ st[i] = v }

\* what the step v side contributes to a validated chain: the event holding
\* v when exactly one does, nothing otherwise
OnlyHolder(st, v) ==
    IF Cardinality(Holders(st, v)) = 1 THEN << CHOOSE i \in Holders(st, v) : TRUE >> ELSE << >>

\* a permutation has just been validated, on the frame loop.before
Tried == pc = "loop" /\ loop.at = "tried"

\* C14 (ambiguous or missing neighbour is unavailable context): the chain
\* validated for a permutation of the tied group at step s is the event
\* holding s-1 when exactly one event holds it, the permutation, and the
\* event holding s+1 when exactly one event holds it; a step held by no
\* event or by several contributes nothing, whichever step is looked up.
C14_NeighbourContext ==
    Tried =>
        /\ loop.idx_validation =
                OnlyHolder(loop.before, loop.s - 1) \o loop.permutation_idx
                    \o OnlyHolder(loop.before, loop.s + 1)
        /\ \A v \in 0..(Len(events) + 1) :
                get_step_index(loop.before, v) = OnlyHolder(loop.before, v)

\* a permutation was validated with one event at s-1, none at s+1, and the
\* step s itself still held by several events
C14_Witness ==
    /\ Tried
    /\ Cardinality(Holders(loop.before, loop.s - 1)) = 1
    /\ Holders(loop.before, loop.s + 1) = {}
    /\ Cardinality(Holders(loop.before, loop.s)) > 1
    /\ loop.valid

\* the rows of the tied group being processed, in the order of their steps
\* in st, when st gives them pairwise distinct steps
BlockOrder(st) ==
    LET rows == Range(loop.duplicates_idx)
    IN  [n \in 1..Cardinality(rows) |->
            CHOOSE i \in rows : Cardinality({ j \in rows : st[j] < st[i] }) = n - 1]

Rewritten(st) ==
    \A i, j \in Range(loop.duplicates_idx) : i # j => st[i] # st[j]

\* C18 (accepted orderings are chains): steps are written only for a
\* permutation that passed validation; every permutation written orders all
\* k tied events in a continuous chain that the unique event at step s-1,
\* when there is one, leads into; so whatever ordering a rewritten block
\* holds, after the first write and after every later one, is continuous
\* within the block and with that predecessor.
C18_AcceptedOrderingsAreChains ==
    Tried =>
        /\ loop.st # loop.before => loop.valid
        /\ loop.valid =>
              /\ Range(loop.permutation_idx) = TiedWith(loop.permutation_idx[1])
              /\ Len(loop.permutation_idx) = Cardinality(TiedWith(loop.permutation_idx[1]))
              /\ IsChain(OnlyHolder(loop.before, loop.s - 1) \o loop.permutation_idx)
              /\ \A n \in DOMAIN loop.permutation_idx :
                    loop.st[loop.permutation_idx[n]] = loop.s + (n - 1)
        /\ Rewritten(loop.st) =>
              IsChain(OnlyHolder(loop.st, loop.s - 1) \o BlockOrder(loop.st))

\* a later permutation was written over an earlier one, in a block that has
\* a predecessor
C18_Witness ==
    /\ Tried /\ loop.valid
    /\ Rewritten(loop.before) /\ loop.st # loop.before
    /\ OnlyHolder(loop.before, loop.s - 1) # << >>

\* row i is in no tied group of the step column: its step is NaN or no other
\* row of its player holds it
Untied(i) ==
    step[i] = NaN \/ ~ \E j \in Rows : j # i /\ SamePlayer(i, j) /\ ShareStep(i, j)

\* C15 (frame of reconciliation): a call of resolve_duplicate_steps that
\* returns leaves the rows as they are (none added, none deleted, the rows
\* without a date included, no field other than step changed) and leaves
\* the step of every event that is in no tied group as it was.
C15_FrameOfReconciliation ==
    [][ (pc = "resolve" /\ pc' \in {"resolve", "export"}) =>
            /\ events' = events
            /\ DOMAIN step' = DOMAIN events
            /\ \A i \in Rows : Untied(i) => step'[i] = step[i] ]_vars

\* a frame was returned in which a tied group was rewritten next to an event
\* of the same player that has no date
C15_Witness ==
    /\ Returned
    /\ \E G \in TiedGroups :
         /\ \E i \in G : step[i] # GroupStep(G)
         /\ \E j \in Rows : ~ HasDate(j) /\ (\E i \in G : SamePlayer(i, j))

\* the step column the reconciliation works on: the copy while the loops of
\* resolve_duplicate_steps run
Working == IF pc = "loop" THEN loop.st ELSE step

RecordCount == IF exists THEN Len(table) ELSE 0

\* C17 (export size-monotonicity): over any sequence of DB.export calls the
\* record count of the table never decreases; a call whose frame has fewer
\* rows than the table fails and leaves the table as it was; a call whose
\* frame has at least as many rows replaces the table by the frame, so that
\* its count is the frame's row count; a table that does not exist counts
\* as 0 rows.
C17_ExportSizeMonotonic ==
    [][ /\ RecordCount' >= RecordCount
        /\ Len(export_df') < RecordCount =>
              pc' = "db_failed" /\ table' = table /\ exists' = exists
        /\ Len(export_df') >= RecordCount =>
              /\ pc' = "db_done" /\ exists' /\ table' = export_df'
              /\ RecordCount' = Len(export_df') ]_vars

\* an export of fewer rows than the table holds has failed
C17_Witness ==
    pc = "db_failed" /\ exists /\ Len(export_df) < Len(table) /\ export_df # << >>

====
